---- MODULE Spec2Model ----
(***************************************************************************)
(* A model of go-btcid (src/btcid.go): the Client, its two request         *)
(* builders (newPubReq, newPrvReq), the four operations built on them      *)
(* (GetTicker, GetTrades, GetDepth, GetInfo) and the collaborators they    *)
(* call: the HTTP transport, the wall clock and encoding/json.             *)
(***************************************************************************)
EXTENDS Integers, Sequences, FiniteSets, TLC

VARIABLES
    client,   \* the Client value the caller holds (btcid.go:43-48)
    server,   \* what the transport yields for the next request
    clock,    \* the wall clock, Unix time in whole seconds
    last,     \* the most recent call: its inputs and what it returned
    memo      \* an earlier call, kept by the caller for comparison

vars == <<client, server, clock, last, memo>>

----------------------------------------------------------------------------
(* Bounds of the model.                                                    *)

\* The wall clock starts here ...
StartTime == 999
\* ... and advances by at most this many seconds.
MaxTicks == 2

----------------------------------------------------------------------------
(* Constants of the package (btcid.go:19-35) and of its tests.             *)

baseURL == "https://vip.bitcoin.co.id"
pubAPIEndpoint == "/api"
privAPIEndpoint == "/tapi"
prvMethodGetInfo == "getInfo"

stubAPIKey == "71239123s"
stubSecret == "hush"
stubBaseURL == "https://www.test.com"
stubHTTPClient == "&stubHTTPClient"

\* http.DefaultClient, and the nil *http.Client.
DefaultClient == "http.DefaultClient"
Nil == "nil"

\* A Domain that url.Parse rejects ("missing protocol scheme"): the case
\* in which http.NewRequest fails.
BadDomain == ":"

\* The error values. NoError is Go's nil error.
NoError == "<nil>"
ErrParse == "parse: missing protocol scheme"
ErrTransport == "Do: connection failed"
ErrRead == "ReadAll: unexpected EOF"
ErrSyntax == "json.SyntaxError"
ErrType == "json.UnmarshalTypeError"

----------------------------------------------------------------------------
(* JSON documents. A response body is a byte string; the model keeps what  *)
(* encoding/json's scanner makes of it: no bytes at all, bytes that are    *)
(* not JSON, or the JSON value they spell.                                 *)

JStr(s) == [t |-> "string", s |-> s]
JNum(n) == [t |-> "number", n |-> n]
JObj(o) == [t |-> "object", o |-> o]
JArr(a) == [t |-> "array", a |-> a]
JNull == [t |-> "null"]

\* The nil []byte a builder returns beside an error.
NilBytes == [syntax |-> "nil"]
\* A body of zero bytes.
EmptyBody == [syntax |-> "empty"]
\* A body that is not JSON, such as an HTML error page.
Garbage == [syntax |-> "invalid"]
\* A body that is the JSON text of v.
Doc(v) == [syntax |-> "json", v |-> v]

----------------------------------------------------------------------------
(* Go types and values, as far as json.Unmarshal tells them apart.         *)

TString == [k |-> "string"]
TInt == [k |-> "int"]
TAny == [k |-> "interface"]
TSlice(e) == [k |-> "slice", elem |-> e]
TMap(e) == [k |-> "map", elem |-> e]
TStruct(fields) == [k |-> "struct", fields |-> fields]
Field(name, key, type) == [name |-> name, key |-> key, type |-> type]

NilSlice == [isNil |-> TRUE]
Slice(elems) == [isNil |-> FALSE, elems |-> elems]
NilMap == [isNil |-> TRUE]
Map(kv) == [isNil |-> FALSE, kv |-> kv]
NilInterface == [t |-> "nil"]

FieldNames(fields) == {fields[i].name : i \in DOMAIN fields}
FieldNamed(fields, n) == fields[CHOOSE i \in DOMAIN fields : fields[i].name = n]

RECURSIVE Zero(_)
Zero(type) ==
    CASE type.k = "string" -> ""
      [] type.k = "int" -> 0
      [] type.k = "interface" -> NilInterface
      [] type.k = "slice" -> NilSlice
      [] type.k = "map" -> NilMap
      [] type.k = "struct" ->
            [n \in FieldNames(type.fields) |->
                Zero(FieldNamed(type.fields, n).type)]

TickerType ==
    TStruct(<<Field("High", "high", TString), Field("Low", "low", TString),
              Field("Last", "last", TString), Field("Buy", "buy", TString),
              Field("Sell", "sell", TString)>>)

TradeType ==
    TStruct(<<Field("Date", "date", TString), Field("Price", "price", TString),
              Field("Amount", "amount", TString), Field("TID", "tid", TString),
              Field("Type", "type", TString)>>)

DepthType ==
    TStruct(<<Field("Buy", "buy", TSlice(TSlice(TAny))),
              Field("Sell", "sell", TSlice(TSlice(TAny)))>>)

UserInfoType ==
    TStruct(<<Field("Balance", "balance", TMap(TAny)),
              Field("BalanceHold", "balance_hold", TMap(TAny)),
              Field("Address", "address", TMap(TString)),
              Field("UserID", "user_id", TString),
              Field("ProfilePicture", "profile_picture", TString),
              Field("Name", "name", TString),
              Field("ServerTime", "server_time", TInt),
              Field("Email", "email", TString)>>)

InfoRes ==
    TStruct(<<Field("Success", "success", TInt),
              Field("Return", "return", UserInfoType)>>)

\* The anonymous struct GetTicker decodes into.
TickerEnvelope == TStruct(<<Field("Ticker", "ticker", TickerType)>>)

----------------------------------------------------------------------------
(* json.Unmarshal(data, &x): decode into x, whose value before the call is *)
(* cur. The result is x after the call and the error returned.  As in      *)
(* encoding/json: the input is validated first and x is untouched on a     *)
(* syntax error; a value of the wrong JSON kind is skipped, the first such *)
(* error is remembered and decoding goes on; keys that name no field are   *)
(* ignored; fields whose key is absent keep their value; null leaves       *)
(* strings, numbers and structs alone and sets slices, maps and interfaces *)
(* to nil.  (Keys are matched exactly: the documents of this model spell   *)
(* their keys in lower case, as the struct tags do.)                       *)

RECURSIVE Decode(_, _, _)
Decode(type, j, cur) ==
    CASE type.k = "string" ->
            IF j.t = "string" THEN [v |-> j.s, err |-> NoError]
            ELSE IF j.t = "null" THEN [v |-> cur, err |-> NoError]
            ELSE [v |-> cur, err |-> ErrType]
      [] type.k = "int" ->
            IF j.t = "number" THEN [v |-> j.n, err |-> NoError]
            ELSE IF j.t = "null" THEN [v |-> cur, err |-> NoError]
            ELSE [v |-> cur, err |-> ErrType]
      [] type.k = "interface" ->
            IF j.t = "null" THEN [v |-> NilInterface, err |-> NoError]
            ELSE [v |-> j, err |-> NoError]
      [] type.k = "slice" ->
            IF j.t = "array" THEN
                LET sub(i) == Decode(type.elem, j.a[i], Zero(type.elem))
                IN  [v |-> Slice([i \in 1..Len(j.a) |-> sub(i).v]),
                     err |-> IF \E i \in 1..Len(j.a) : sub(i).err # NoError
                             THEN ErrType ELSE NoError]
            ELSE IF j.t = "null" THEN [v |-> NilSlice, err |-> NoError]
            ELSE [v |-> cur, err |-> ErrType]
      [] type.k = "map" ->
            IF j.t = "object" THEN
                LET sub(key) == Decode(type.elem, j.o[key], Zero(type.elem))
                    new == [key \in DOMAIN j.o |-> sub(key).v]
                IN  [v |-> Map(IF cur.isNil THEN new ELSE new @@ cur.kv),
                     err |-> IF \E key \in DOMAIN j.o : sub(key).err # NoError
                             THEN ErrType ELSE NoError]
            ELSE IF j.t = "null" THEN [v |-> NilMap, err |-> NoError]
            ELSE [v |-> cur, err |-> ErrType]
      [] type.k = "struct" ->
            IF j.t = "object" THEN
                LET f(n) == FieldNamed(type.fields, n)
                    present(n) == f(n).key \in DOMAIN j.o
                    sub(n) == Decode(f(n).type, j.o[f(n).key], cur[n])
                    names == FieldNames(type.fields)
                IN  [v |-> [n \in names |->
                                IF present(n) THEN sub(n).v ELSE cur[n]],
                     err |-> IF \E n \in names :
                                    present(n) /\ sub(n).err # NoError
                             THEN ErrType ELSE NoError]
            ELSE IF j.t = "null" THEN [v |-> cur, err |-> NoError]
            ELSE [v |-> cur, err |-> ErrType]

Unmarshal(data, type, cur) ==
    IF data.syntax # "json" THEN [v |-> cur, err |-> ErrSyntax]
    ELSE Decode(type, data.v, cur)

----------------------------------------------------------------------------
(* The collaborators of the request builders.                              *)

\* strconv.FormatInt(n, 10) for n >= 0.
RECURSIVE FormatInt(_)
FormatInt(n) ==
    LET digit(d) == <<"0", "1", "2", "3", "4", "5", "6", "7", "8", "9">>[d + 1]
    IN  IF n < 10 THEN digit(n) ELSE FormatInt(n \div 10) \o digit(n % 10)

\* time.Now().Unix()
UnixNow == clock

\* The keys a url.Values of this package can hold, in the byte order
\* url.Values.Encode sorts them into.
SortedKeys == <<"method", "nonce">>

\* url.Values.Encode: key=value pairs joined by "&", sorted by key. The
\* values in play (a method name, decimal digits) hold only unreserved
\* characters, which url.QueryEscape leaves as they are.
RECURSIVE EncodeFrom(_, _)
EncodeFrom(q, i) ==
    IF i > Len(SortedKeys) THEN ""
    ELSE LET k == SortedKeys[i]
             rest == EncodeFrom(q, i + 1)
         IN  IF k \notin DOMAIN q THEN rest
             ELSE k \o "=" \o q[k] \o (IF rest = "" THEN "" ELSE "&" \o rest)

Encode(q) == EncodeFrom(q, 1)

\* hmac.New(sha512.New, key) fed msg, then Sum(nil): the digest is kept
\* symbolic, equal exactly when key and message are.
HMACSHA512(key, msg) == [alg |-> "HMAC-SHA512", key |-> key, msg |-> msg]

\* hex.EncodeToString
HexEncode(digest) == [hex |-> digest]

\* http.NewRequest(method, url, body): fails when url.Parse rejects the
\* URL, which of the URLs this package builds are those of a Domain that
\* opens with a colon.
NewRequest(method, url, body) ==
    IF url \in {BadDomain \o pubAPIEndpoint \o e :
                    e \in {"/btc_idr/ticker", "/btc_idr/trades", "/btc_idr/depth"}}
              \cup {BadDomain \o privAPIEndpoint}
    THEN [req |-> Nil, err |-> ErrParse]
    ELSE [req |-> [Method |-> method, URL |-> url, Body |-> body,
                   Header |-> <<>>],
          err |-> NoError]

\* req.Header.Set(key, value)
HeaderSet(req, key, value) ==
    [req EXCEPT !.Header = (key :> value) @@ req.Header]

\* c.HTTPClient.Do(req): one round trip to the server.
Do(httpClient, req) ==
    IF server.fault = "connect" THEN [res |-> Nil, err |-> ErrTransport]
    ELSE [res |-> [StatusCode |-> server.status,
                   Body |-> [data |-> server.body,
                             broken |-> server.fault = "read"]],
          err |-> NoError]

\* ioutil.ReadAll(res.Body)
ReadAll(body) ==
    IF body.broken THEN [data |-> EmptyBody, err |-> ErrRead]
    ELSE [data |-> body.data, err |-> NoError]

----------------------------------------------------------------------------
(* The package: btcid.go.                                                  *)

\* New without the nil check of btcid.go:91-93.
New_NoDefault(APIKey, Secret, HTTPClient) ==
    [APIKey |-> APIKey, Secret |-> Secret, HTTPClient |-> HTTPClient,
     Domain |-> baseURL]

\* New (btcid.go:90-100)
New(APIKey, Secret, HTTPClient) ==
    LET h == IF HTTPClient = Nil THEN DefaultClient ELSE HTTPClient
    IN  [APIKey |-> APIKey, Secret |-> Secret, HTTPClient |-> h,
         Domain |-> baseURL]

\* A builder returns the body and an error; the model also keeps the
\* requests it handed to the transport (sent), in order.
Built(body, err, sent) == [body |-> body, err |-> err, sent |-> sent]

\* newPrvReq keying the HMAC with the API key instead of the secret.
newPrvReq_KeyedByAPIKey(c, PrivateMethod) ==
    LET nonce == FormatInt(UnixNow)
        q == ("nonce" :> nonce) @@ ("method" :> PrivateMethod)
        queryString == Encode(q)
        url == c.Domain \o privAPIEndpoint
        made == NewRequest("POST", url, queryString)
        signature == HexEncode(HMACSHA512(c.APIKey, queryString))
        req == HeaderSet(
                   HeaderSet(
                       HeaderSet(made.req, "Key", c.APIKey),
                       "Sign", signature),
                   "Content-Type", "application/x-www-form-urlencoded")
        done == Do(c.HTTPClient, req)
        read == ReadAll(done.res.Body)
    IN  IF made.err # NoError THEN Built(NilBytes, made.err, <<>>)
        ELSE IF done.err # NoError THEN Built(NilBytes, done.err, <<req>>)
        ELSE IF read.err # NoError THEN Built(NilBytes, read.err, <<req>>)
        ELSE Built(read.data, NoError, <<req>>)

\* newPrvReq (btcid.go:102-146)
newPrvReq(c, PrivateMethod) ==
    LET nonce == FormatInt(UnixNow)
        q == ("nonce" :> nonce) @@ ("method" :> PrivateMethod)
        queryString == Encode(q)
        url == c.Domain \o privAPIEndpoint
        made == NewRequest("POST", url, queryString)
        signature == HexEncode(HMACSHA512(c.Secret, queryString))
        req == HeaderSet(
                   HeaderSet(
                       HeaderSet(made.req, "Key", c.APIKey),
                       "Sign", signature),
                   "Content-Type", "application/x-www-form-urlencoded")
        done == Do(c.HTTPClient, req)
        read == ReadAll(done.res.Body)
    IN  IF made.err # NoError THEN Built(NilBytes, made.err, <<>>)
        ELSE IF done.err # NoError THEN Built(NilBytes, done.err, <<req>>)
        ELSE IF read.err # NoError THEN Built(NilBytes, read.err, <<req>>)
        ELSE Built(read.data, NoError, <<req>>)

\* newPubReq sending the request once more when the transport fails.
newPubReq_Retrying(c, endpoint) ==
    LET url == c.Domain \o pubAPIEndpoint \o endpoint
        made == NewRequest("GET", url, "")
        req == made.req
        done == Do(c.HTTPClient, req)
        read == ReadAll(done.res.Body)
    IN  IF made.err # NoError THEN Built(NilBytes, made.err, <<>>)
        ELSE IF done.err # NoError THEN Built(NilBytes, done.err, <<req, req>>)
        ELSE IF read.err # NoError THEN Built(NilBytes, read.err, <<req>>)
        ELSE Built(read.data, NoError, <<req>>)

\* newPubReq treating every status but 200 as a failure.
newPubReq_CheckingStatus(c, endpoint) ==
    LET url == c.Domain \o pubAPIEndpoint \o endpoint
        made == NewRequest("GET", url, "")
        req == made.req
        done == Do(c.HTTPClient, req)
        read == ReadAll(done.res.Body)
    IN  IF made.err # NoError THEN Built(NilBytes, made.err, <<>>)
        ELSE IF done.err # NoError THEN Built(NilBytes, done.err, <<req>>)
        ELSE IF done.res.StatusCode # 200
             THEN Built(NilBytes, "unexpected status", <<req>>)
        ELSE IF read.err # NoError THEN Built(NilBytes, read.err, <<req>>)
        ELSE Built(read.data, NoError, <<req>>)

\* newPubReq keeping the response of the call before it: asked for the
\* same URL again, it reads that response's body a second time and finds
\* it drained.
newPubReq_ReusingResponse(c, endpoint) ==
    LET url == c.Domain \o pubAPIEndpoint \o endpoint
        made == NewRequest("GET", url, "")
        req == made.req
        done == Do(c.HTTPClient, req)
        read == ReadAll(done.res.Body)
        again == /\ last.op \in {"GetTicker", "GetTrades", "GetDepth"}
                 /\ last.out.built.sent = <<req>>
                 /\ last.out.built.body # EmptyBody
    IN  IF made.err # NoError THEN Built(NilBytes, made.err, <<>>)
        ELSE IF again THEN Built(EmptyBody, NoError, <<req>>)
        ELSE IF done.err # NoError THEN Built(NilBytes, done.err, <<req>>)
        ELSE IF read.err # NoError THEN Built(NilBytes, read.err, <<req>>)
        ELSE Built(read.data, NoError, <<req>>)

\* newPubReq (btcid.go:148-171)
newPubReq(c, endpoint) ==
    LET url == c.Domain \o pubAPIEndpoint \o endpoint
        made == NewRequest("GET", url, "")
        req == made.req
        done == Do(c.HTTPClient, req)
        read == ReadAll(done.res.Body)
    IN  IF made.err # NoError THEN Built(NilBytes, made.err, <<>>)
        ELSE IF done.err # NoError THEN Built(NilBytes, done.err, <<req>>)
        ELSE IF read.err # NoError THEN Built(NilBytes, read.err, <<req>>)
        ELSE Built(read.data, NoError, <<req>>)

\* What an operation hands back: the result and error it returns (ret,
\* err), and beside them what happened inside it: the receiver after the
\* call (c), the builder's outcome (built) and json.Unmarshal's error
\* (decErr).
Returned(ret, err, c, built, decErr) ==
    [ret |-> ret, err |-> err, c |-> c, built |-> built, decErr |-> decErr]

\* GetTicker decoding the body as a Ticker, without the envelope.
GetTicker_NoEnvelope(c) ==
    LET built == newPubReq(c, "/btc_idr/ticker")
        ticker == Unmarshal(built.body, TickerType, Zero(TickerType))
    IN  IF ticker.err # NoError
        THEN Returned(Zero(TickerType), ticker.err, c, built, ticker.err)
        ELSE Returned(ticker.v, NoError, c, built, ticker.err)

\* GetTicker (btcid.go:174-188)
GetTicker(c) ==
    LET built == newPubReq(c, "/btc_idr/ticker")
        ticker == Unmarshal(built.body, TickerEnvelope, Zero(TickerEnvelope))
    IN  IF ticker.err # NoError
        THEN Returned(Zero(TickerType), ticker.err, c, built, ticker.err)
        ELSE Returned(ticker.v.Ticker, NoError, c, built, ticker.err)

\* GetTrades (btcid.go:191-202)
GetTrades(c) ==
    LET built == newPubReq(c, "/btc_idr/trades")
        trades == Unmarshal(built.body, TSlice(TradeType), Slice(<<>>))
    IN  Returned(trades.v, NoError, c, built, trades.err)

\* GetDepth (btcid.go:205-216)
GetDepth(c) ==
    LET built == newPubReq(c, "/btc_idr/depth")
        depth == Unmarshal(built.body, DepthType, Zero(DepthType))
    IN  Returned(depth.v, NoError, c, built, depth.err)

\* GetInfo giving up the payload of an answer whose success flag is 0.
GetInfo_CheckingSuccess(c) ==
    LET built == newPrvReq(c, prvMethodGetInfo)
        infoRes == Unmarshal(built.body, InfoRes, Zero(InfoRes))
    IN  IF infoRes.v.Success = 0
        THEN Returned(Zero(UserInfoType), NoError, c, built, infoRes.err)
        ELSE Returned(infoRes.v.Return, NoError, c, built, infoRes.err)

\* GetInfo (btcid.go:219-230)
GetInfo(c) ==
    LET built == newPrvReq(c, prvMethodGetInfo)
        infoRes == Unmarshal(built.body, InfoRes, Zero(InfoRes))
    IN  Returned(infoRes.v.Return, NoError, c, built, infoRes.err)

----------------------------------------------------------------------------
(* The documents the exchange (or a stub of it) answers with.              *)

TickerDoc(high, low, lst, buy, sell) ==
    Doc(JObj([ticker |-> JObj([high |-> JStr(high), low |-> JStr(low),
                               last |-> JStr(lst), buy |-> JStr(buy),
                               sell |-> JStr(sell)])]))

\* The ticker of the test: every field "2500".
FlatTicker == TickerDoc("2500", "2500", "2500", "2500", "2500")
\* A ticker whose five fields differ.
LiveTicker == TickerDoc("2600", "2400", "2500", "2490", "2510")
\* An envelope whose ticker is not an object.
WrongTicker == Doc(JObj([ticker |-> JStr("down")]))
\* The exchange's error object.
ErrorDoc == Doc(JObj([error |-> JStr("Invalid pair")]))

NoTrades == Doc(JArr(<<>>))
OneTrade ==
    Doc(JArr(<<JObj([date |-> JStr("1500000000"), price |-> JStr("2500"),
                     amount |-> JStr("0.1"), tid |-> JStr("7"),
                     type |-> JStr("buy")])>>))

DepthDoc ==
    Doc(JObj([buy |-> JArr(<<JArr(<<JNum(2490), JStr("0.5")>>)>>),
              sell |-> JArr(<<JArr(<<JNum(2510), JStr("0.2")>>)>>)]))

Account ==
    JObj([user_id |-> JStr("u1"), email |-> JStr("a@b.com"),
          name |-> JStr("A"), server_time |-> JNum(1000),
          balance |-> JObj([idr |-> JNum(5), btc |-> JStr("0.1")]),
          address |-> JObj([btc |-> JStr("1abc")])])

InfoDoc(success, return) ==
    Doc(JObj([success |-> JNum(success), return |-> return]))

PublicDocs ==
    {Garbage, EmptyBody, FlatTicker, LiveTicker, WrongTicker, ErrorDoc,
     NoTrades, OneTrade, DepthDoc}

PrivateDocs ==
    {InfoDoc(1, Account), InfoDoc(0, Account), InfoDoc(0, JObj(<<>>)), Garbage}

StatusCodes == {200, 500}

\* What the transport can yield: no connection, a response whose body
\* breaks off, or a response with a status code and a body.
Responses(statuses, docs) ==
    {[fault |-> "connect", status |-> 0, body |-> NilBytes]}
    \cup {[fault |-> "read", status |-> s, body |-> NilBytes] : s \in statuses}
    \cup {[fault |-> "none", status |-> s, body |-> b] :
                s \in statuses, b \in docs}

----------------------------------------------------------------------------
(* The state machine. The caller constructs a Client, may point it at      *)
(* another Domain (as the tests do), and calls the operations one at a     *)
(* time; the exchange and the clock move in between.                       *)

NoCall == [op |-> "none"]

NewCall(APIKey, Secret, HTTPClient) ==
    [op |-> "New",
     args |-> [APIKey |-> APIKey, Secret |-> Secret, HTTPClient |-> HTTPClient],
     out |-> New(APIKey, Secret, HTTPClient)]

Init ==
    /\ client = New(stubAPIKey, stubSecret, Nil)
    /\ last = NewCall(stubAPIKey, stubSecret, Nil)
    /\ memo = NoCall
    /\ server = [fault |-> "none", status |-> 200, body |-> InfoDoc(1, Account)]
    /\ clock = StartTime

\* client := New(APIKey, Secret, HTTPClient)
DoNew(APIKey, Secret, HTTPClient) ==
    /\ client' = New(APIKey, Secret, HTTPClient)
    /\ last' = NewCall(APIKey, Secret, HTTPClient)
    /\ UNCHANGED <<server, clock, memo>>

\* client.Domain = d (part_000:47, 76)
SetDomain(d) ==
    /\ client.Domain # d
    /\ client' = [client EXCEPT !.Domain = d]
    /\ UNCHANGED <<server, clock, last, memo>>

\* The exchange (or the network) changes what the next request meets.
SetServer(r) ==
    /\ server # r
    /\ server' = r
    /\ UNCHANGED <<client, clock, last, memo>>

\* A second passes.
Tick ==
    /\ clock < StartTime + MaxTicks
    /\ clock' = clock + 1
    /\ UNCHANGED <<client, server, last, memo>>

\* One call of an operation on the client: out is what it hands back.
\* With keep, the caller keeps the record of the call before it.
Call(op, out, keep) ==
    /\ last' = [op |-> op, c |-> client, srv |-> server, now |-> clock,
                out |-> out]
    /\ client' = out.c
    /\ memo' = IF keep THEN last ELSE memo
    /\ UNCHANGED <<server, clock>>

DoGetTicker(keep) == Call("GetTicker", GetTicker(client), keep)
DoGetTrades(keep) == Call("GetTrades", GetTrades(client), keep)
DoGetDepth(keep) == Call("GetDepth", GetDepth(client), keep)
DoGetInfo(keep) == Call("GetInfo", GetInfo(client), keep)

APIKeys == {stubAPIKey, "key2"}
Secrets == {stubSecret, "secret2"}
HTTPClients == {Nil, stubHTTPClient}
Domains == {baseURL, stubBaseURL, BadDomain}

PublicOps == {"GetTicker", "GetTrades", "GetDepth"}
Ops == PublicOps \cup {"GetInfo"}

\* Every operation against every response and Domain, one call at a time.
Next ==
    \/ \E d \in Domains : SetDomain(d)
    \/ \E r \in Responses(StatusCodes, PublicDocs \cup PrivateDocs) : SetServer(r)
    \/ DoGetTicker(FALSE)
    \/ DoGetTrades(FALSE)
    \/ DoGetDepth(FALSE)
    \/ DoGetInfo(FALSE)

Spec == Init /\ [][Next]_vars

\* Construction with every argument, and the signed request of each client.
NextNew ==
    \/ \E k \in APIKeys, s \in Secrets, h \in HTTPClients : DoNew(k, s, h)
    \/ \E d \in Domains : SetDomain(d)
    \/ Tick
    \/ DoGetInfo(FALSE)

SpecNew == Init /\ [][NextNew]_vars

\* Calls compared in pairs: the public operations against a changing exchange.
NextPub ==
    \/ \E r \in Responses(StatusCodes, {Garbage, LiveTicker, OneTrade, DepthDoc}) :
            SetServer(r)
    \/ \E keep \in BOOLEAN : DoGetTicker(keep)
    \/ \E keep \in BOOLEAN : DoGetTrades(keep)
    \/ \E keep \in BOOLEAN : DoGetDepth(keep)
    \/ \E keep \in BOOLEAN : DoGetInfo(keep)

SpecPub == Init /\ [][NextPub]_vars

\* Calls compared in pairs: the private operation as the clock advances.
NextPrv ==
    \/ \E s \in Secrets : DoNew(stubAPIKey, s, Nil)
    \/ \E r \in Responses({200}, PrivateDocs) : SetServer(r)
    \/ Tick
    \/ \E keep \in BOOLEAN : DoGetInfo(keep)

SpecPrv == Init /\ [][NextPrv]_vars

----------------------------------------------------------------------------
(* The properties.                                                         *)

\* The requests a recorded call handed to the transport.
Sent(call) == call.out.built.sent

\* The nonce a signed request carries, read back from its body.
NonceOf(req) ==
    CHOOSE n \in StartTime..(StartTime + MaxTicks) :
        req.Body = "method=getInfo&nonce=" \o FormatInt(n)

\* C1: New returns a Client whose APIKey and Secret are the arguments,
\* whose Domain is the production base URL and whose HTTPClient is the
\* transport passed, or the default client when nil was passed.
C1_NewReturnsClient ==
    last.op = "New" =>
        /\ last.out.APIKey = last.args.APIKey
        /\ last.out.Secret = last.args.Secret
        /\ last.out.Domain = "https://vip.bitcoin.co.id"
        /\ last.out.HTTPClient =
                IF last.args.HTTPClient = Nil THEN "http.DefaultClient"
                ELSE last.args.HTTPClient
        /\ client = [last.out EXCEPT !.Domain = client.Domain]

C1_Witness ==
    /\ last.op = "New"
    /\ last.args = [APIKey |-> "key2", Secret |-> "secret2", HTTPClient |-> Nil]
    /\ client.HTTPClient = DefaultClient
    /\ client.Domain = baseURL

\* C2: when json.Unmarshal rejects the body a builder delivered, the
\* operation returns a non-nil error (GetTicker, GetTrades, GetDepth and
\* GetInfo alike).
C2_DecodeErrorReturned ==
    (/\ last.op \in Ops
     /\ last.out.built.err = NoError
     /\ last.out.decErr # NoError)
        => last.out.err # NoError

\* C3: when the request builder fails, the operation that called it
\* returns a non-nil error.
C3_BuilderErrorReturned ==
    (last.op \in Ops /\ last.out.built.err # NoError) => last.out.err # NoError

\* C4: of two private calls made with one secret, the later one carries
\* the strictly greater nonce.
C4_NonceStrictlyIncreasing ==
    (/\ memo.op = "GetInfo"
     /\ last.op = "GetInfo"
     /\ memo.c.Secret = last.c.Secret
     /\ Sent(memo) # <<>>
     /\ Sent(last) # <<>>)
        => NonceOf(Sent(memo)[1]) < NonceOf(Sent(last)[1])

\* C5: every request newPrvReq dispatches is a POST to {Domain}/tapi whose
\* body is method=<method>&nonce=<seconds>, whose Key header is the API
\* key and whose Sign header is hex(HMAC-SHA512(secret, body)); with
\* secret "hush" and nonce 1000 that is the digest of
\* method=getInfo&nonce=1000 keyed by "hush".
C5_SignedRequest ==
    last.op = "GetInfo" =>
        \A i \in DOMAIN Sent(last) :
            LET req == Sent(last)[i] IN
            /\ req.Method = "POST"
            /\ req.URL = last.c.Domain \o "/tapi"
            /\ req.Body = "method=getInfo&nonce=" \o FormatInt(last.now)
            /\ DOMAIN req.Header = {"Key", "Sign", "Content-Type"}
            /\ req.Header["Key"] = last.c.APIKey
            /\ req.Header["Sign"] = HexEncode(HMACSHA512(last.c.Secret, req.Body))
            /\ (last.c.Secret = "hush" /\ last.now = 1000) =>
                    req.Header["Sign"] =
                        HexEncode(HMACSHA512("hush", "method=getInfo&nonce=1000"))

C5_Witness ==
    /\ last.op = "GetInfo"
    /\ Len(Sent(last)) = 1
    /\ last.now = 1000
    /\ last.c.Secret = "hush"
    /\ last.c.APIKey = "key2"
    /\ Sent(last)[1].Body = "method=getInfo&nonce=1000"

\* A body that is a well-formed ticker envelope: an object whose "ticker"
\* is an object with the five fields, each a string.
WellFormedTicker(b) ==
    /\ b.syntax = "json"
    /\ b.v.t = "object"
    /\ "ticker" \in DOMAIN b.v.o
    /\ b.v.o.ticker.t = "object"
    /\ {"high", "low", "last", "buy", "sell"} \subseteq DOMAIN b.v.o.ticker.o
    /\ \A k \in {"high", "low", "last", "buy", "sell"} :
            b.v.o.ticker.o[k].t = "string"

\* C6: answered with a well-formed ticker envelope, GetTicker returns a
\* nil error and the five values of the inner object.
C6_TickerDecoded ==
    (/\ last.op = "GetTicker"
     /\ Sent(last) # <<>>
     /\ last.srv.fault = "none"
     /\ WellFormedTicker(last.srv.body))
        => LET inner == last.srv.body.v.o.ticker.o IN
           /\ last.out.err = NoError
           /\ last.out.ret.High = inner.high.s
           /\ last.out.ret.Low = inner.low.s
           /\ last.out.ret.Last = inner.last.s
           /\ last.out.ret.Buy = inner.buy.s
           /\ last.out.ret.Sell = inner.sell.s

C6_Witness ==
    /\ last.op = "GetTicker"
    /\ Sent(last) # <<>>
    /\ last.srv.fault = "none"
    /\ last.srv.body = LiveTicker
    /\ last.out.ret.High = "2600"
    /\ last.out.ret.Sell = "2510"

InfoEnvelope(b) ==
    /\ b.syntax = "json"
    /\ b.v.t = "object"
    /\ DOMAIN b.v.o = {"success", "return"}
    /\ b.v.o.success.t = "number"
    /\ b.v.o.success.n \in {0, 1}
    /\ b.v.o.return.t = "object"

\* C8: GetInfo returns the decoded `return` payload with a nil error
\* whatever the success flag: two answers with the same `return` and
\* different flags give the same UserInfo and the same nil error.
C8_SuccessIgnored ==
    /\ (/\ last.op = "GetInfo"
        /\ last.srv.fault = "none"
        /\ InfoEnvelope(last.srv.body))
            => LET payload == last.srv.body.v.o.return.o IN
               /\ last.out.err = NoError
               /\ \A k \in DOMAIN payload \cap {"user_id"} :
                        last.out.ret.UserID = payload[k].s
               /\ \A k \in DOMAIN payload \cap {"email"} :
                        last.out.ret.Email = payload[k].s
               /\ \A k \in DOMAIN payload \cap {"server_time"} :
                        last.out.ret.ServerTime = payload[k].n
    /\ (/\ memo.op = "GetInfo"
        /\ last.op = "GetInfo"
        /\ memo.srv.fault = "none"
        /\ last.srv.fault = "none"
        /\ InfoEnvelope(memo.srv.body)
        /\ InfoEnvelope(last.srv.body)
        /\ memo.srv.body.v.o.return = last.srv.body.v.o.return)
            => /\ last.out.ret = memo.out.ret
               /\ last.out.err = NoError
               /\ memo.out.err = NoError

C8_Witness ==
    /\ memo.op = "GetInfo"
    /\ last.op = "GetInfo"
    /\ memo.srv.body = InfoDoc(1, Account)
    /\ last.srv.body = InfoDoc(0, Account)
    /\ last.srv.fault = "none"
    /\ last.out.ret.UserID = "u1"
    /\ last.out.ret.Email = "a@b.com"
    /\ last.out.ret = memo.out.ret
    /\ last.out.err = NoError

\* C9: a call hands the transport no request when the request cannot be
\* constructed and exactly one otherwise, also when the transport or the
\* read of the body fails, and leaves the Client as it was.
C9_OneRequest ==
    last.op \in Ops =>
        /\ Len(Sent(last)) = IF last.c.Domain = BadDomain THEN 0 ELSE 1
        /\ last.out.c = last.c

C9_Witness ==
    /\ last.op = "GetDepth"
    /\ last.srv.fault = "connect"
    /\ last.out.built.err = ErrTransport
    /\ Len(Sent(last)) = 1
    /\ client = last.c

\* C10: newPubReq returns the body of the response with a nil error
\* whatever its status, and two responses that differ in status alone give
\* a public operation the same result and the same error.
C10_StatusIgnored ==
    /\ (/\ last.op \in PublicOps
        /\ Sent(last) # <<>>
        /\ last.srv.fault = "none")
            => /\ last.out.built.body = last.srv.body
               /\ last.out.built.err = NoError
    /\ (/\ memo.op \in PublicOps
        /\ last.op = memo.op
        /\ last.c = memo.c
        /\ last.srv.fault = memo.srv.fault
        /\ last.srv.body = memo.srv.body)
            => /\ last.out.ret = memo.out.ret
               /\ last.out.err = memo.out.err

C10_Witness ==
    /\ memo.op = "GetTicker"
    /\ last.op = "GetTicker"
    /\ memo.srv = [fault |-> "none", status |-> 200, body |-> LiveTicker]
    /\ last.srv = [fault |-> "none", status |-> 500, body |-> LiveTicker]
    /\ last.out.built.body = LiveTicker
    /\ last.out.ret.High = "2600"
    /\ last.out.ret = memo.out.ret

====
